---- MODULE Spec2Model ----
(***************************************************************************)
(* Model of speaches.realtime.chat_utils: the projection of a realtime     *)
(* conversation log to chat-completion messages (items_to_chat_messages,   *)
(* conversation_item_to_chat_message) and the construction of the chat     *)
(* request (create_completion_params).                                     *)
(*                                                                         *)
(* Spec        runs the loop of items_to_chat_messages over a log drawn    *)
(*             from a bounded set, one iteration per step.                 *)
(* SpecParams  applies create_completion_params to a history and a         *)
(*             response drawn from bounded sets.                           *)
(* SpecLifespan  runs the startup loop of speaches.main.lifespan.          *)
(* SpecHandler   applies the APIProxyError handler of speaches.main.       *)
(* SpecSession   runs the event stream of one realtime response, as the    *)
(*               specification of the response orchestrator describes it.  *)
(***************************************************************************)
EXTENDS Integers, Sequences, FiniteSets, TLC

VARIABLES
    items,               \* the argument of items_to_chat_messages
    i,                   \* 1-based position of the `for item in items` loop
    messages,            \* local `messages` / the history handed on
    pending_tool_calls,  \* local `pending_tool_calls`
    pc,                  \* "idle" | "loop" | "returned" | "raised" | "built"
    response,            \* the Response handed to create_completion_params
    params,              \* the CompletionCreateParamsStreaming built, or Absent
    error,               \* the exception a call raised, or None
    \* speaches.main.lifespan
    model_idx,           \* 1-based position of `for model_id in DEFAULT_MODELS`
    executor_idx,        \* 1-based position of `for executor in ...all_executors()`
    lifespan_pc,         \* "idle" | "loop" | "yield" | "crashed"
    startup_log,         \* what the loop did, one record per executor visited
    \* speaches.main._api_proxy_error_handler
    log_level_env,       \* the SPEACHES_LOG_LEVEL environment variable, or None
    uuids,               \* the uuid4 values drawn so far
    json_responses,      \* the JSONResponses returned so far, with their exceptions
    \* one realtime response
    session_pc,          \* "idle" | "open" | "in_progress" | "completed" | "cancelled" | "failed"
    conversation,        \* number of items the client has created
    events               \* the server events carrying the response's id, in order

chatVars == <<items, i, messages, pending_tool_calls, pc, response, params, error>>
lifespanVars == <<model_idx, executor_idx, lifespan_pc, startup_log>>
handlerVars == <<log_level_env, uuids, json_responses>>
sessionVars == <<session_pc, conversation, events>>

vars == <<chatVars, lifespanVars, handlerVars, sessionVars>>

(***************************************************************************)
(* Bounds                                                                  *)
(***************************************************************************)
MaxLen == 3      \* longest conversation log
MaxHist == 2     \* longest history handed to create_completion_params
MaxTools == 2    \* longest tools list of a response

(***************************************************************************)
(* Python values                                                           *)
(***************************************************************************)
None == "<None>"       \* Python None
Absent == "<absent>"   \* a key that is not in a TypedDict / kwargs

\* the exception a failed `assert` raises
AssertionError == "AssertionError"

\* the parts of the program a specification does not run stay as they start
ChatIdle ==
    /\ items = <<>>
    /\ i = 1
    /\ messages = <<>>
    /\ pending_tool_calls = <<>>
    /\ pc = "idle"
    /\ response = Absent
    /\ params = Absent
    /\ error = None

LifespanIdle ==
    /\ model_idx = 1
    /\ executor_idx = 1
    /\ lifespan_pc = "idle"
    /\ startup_log = <<>>

HandlerIdle ==
    /\ log_level_env = None
    /\ uuids = {}
    /\ json_responses = <<>>

SessionIdle ==
    /\ session_pc = "idle"
    /\ conversation = 0
    /\ events = <<>>

\* Python truthiness of an optional string (`assert x`, `if not x`)
Truthy(s) == s # None /\ s # ""

\* `a or b` on an optional string
OrElse(a, b) == IF Truthy(a) THEN a ELSE b

(***************************************************************************)
(* Conversation items (speaches.types.realtime.ConversationItem)           *)
(***************************************************************************)
Statuses == {"completed", "in_progress", "incomplete"}

\* `content` of an item that has none (None): the empty list, which the code
\* treats the same way (both fail `content_list is not None and len(...) == 1`)
NoContent == <<>>

\* one content part: type, text, transcript
Part(t, text, transcript) == [type |-> t, text |-> text, transcript |-> transcript]

MessageItem(status, role, part) ==
    [type |-> "message", status |-> status, role |-> role, content |-> <<part>>,
     call_id |-> None, name |-> None, arguments |-> None, output |-> None]

FunctionCallItem(status, call_id, name, arguments) ==
    [type |-> "function_call", status |-> status, role |-> None, content |-> NoContent,
     call_id |-> call_id, name |-> name, arguments |-> arguments, output |-> None]

FunctionCallOutputItem(status, call_id, output) ==
    [type |-> "function_call_output", status |-> status, role |-> None, content |-> NoContent,
     call_id |-> call_id, name |-> None, arguments |-> None, output |-> output]

\* completed messages with a filled content part, every role/part pairing the
\* realtime protocol produces (system and user text both arrive as input_text)
FilledMessages ==
    { MessageItem("completed", "user", Part("input_text", "hi", None)),
      MessageItem("completed", "system", Part("input_text", "rules", None)),
      MessageItem("completed", "user", Part("input_audio", None, "hello")),
      MessageItem("completed", "assistant", Part("text", "yo", None)),
      MessageItem("completed", "assistant", Part("audio", None, "hey")) }

\* completed messages whose text or transcript is missing or empty
EmptyMessages ==
    { MessageItem("completed", "user", Part("input_audio", None, tr)) : tr \in {None, ""} }
    \cup { MessageItem("completed", "assistant", Part("text", "", None)) }

\* messages still being produced, or cut short by a cancelled response
UnfinishedMessages ==
    { MessageItem(st, "user", Part("input_text", "hi", None)) : st \in Statuses \ {"completed"} }
    \cup { MessageItem(st, "assistant", Part("audio", None, None)) : st \in Statuses \ {"completed"} }

FunctionCalls ==
    { FunctionCallItem("completed", c, "get_time", "{}") : c \in {"c1", "c2"} }
    \cup { FunctionCallItem(st, "c3", "get_time", "{") : st \in Statuses \ {"completed"} }

FunctionCallOutputs ==
    { FunctionCallOutputItem("completed", "c1", o) : o \in {"12:00", ""} }
    \cup { FunctionCallOutputItem("completed", "c2", "12:01") }
    \cup { FunctionCallOutputItem("in_progress", "c1", "12:00") }

Items == FilledMessages \cup EmptyMessages \cup UnfinishedMessages
            \cup FunctionCalls \cup FunctionCallOutputs

SeqsUpTo(S, n) == UNION { [1..k -> S] : k \in 0..n }

Logs == SeqsUpTo(Items, MaxLen)

(***************************************************************************)
(* Chat messages (openai.types.chat.*MessageParam)                         *)
(***************************************************************************)
ChatMessage(role, content, tool_call_id, tool_calls) ==
    [role |-> role, content |-> content, tool_call_id |-> tool_call_id,
     tool_calls |-> tool_calls]

\* a message without the tool_calls key carries the empty list here (the code
\* never builds a tool_calls message from an empty list)
NoToolCalls == <<>>

ChatCompletionAssistantMessageParam(content) == ChatMessage("assistant", content, Absent, NoToolCalls)
ChatCompletionUserMessageParam(content) == ChatMessage("user", content, Absent, NoToolCalls)
ChatCompletionSystemMessageParam(content) == ChatMessage("system", content, Absent, NoToolCalls)
ChatCompletionToolMessageParam(tool_call_id, content) == ChatMessage("tool", content, tool_call_id, NoToolCalls)
AssistantToolCallsMessage(tool_calls) == ChatMessage("assistant", Absent, Absent, tool_calls)

ChatCompletionMessageToolCallParam(item) ==
    [id |-> item.call_id, type |-> "function",
     function |-> [name |-> item.name, arguments |-> item.arguments]]

(***************************************************************************)
(* conversation_item_to_chat_message                                       *)
(* The result is [raised, value]: raised is TRUE when an assert fails;     *)
(* value is <<m>> for a chat message m and <<>> for a returned None.       *)
(***************************************************************************)
Raise == [raised |-> TRUE, value |-> <<>>]
Return(v) == [raised |-> FALSE, value |-> v]
ReturnNone == Return(<<>>)
ReturnMessage(m) == Return(<<m>>)

\* the `case "input_audio":` branch, with an assert like its sibling branches
ConvertInputAudioAsserting(content) ==
    IF Truthy(content.transcript)
    THEN ReturnMessage(ChatCompletionUserMessageParam(content.transcript))
    ELSE Raise

\* the `case "input_audio":` branch
ConvertInputAudio(content) ==
    IF ~Truthy(content.transcript)
    THEN ReturnNone
    ELSE ReturnMessage(ChatCompletionUserMessageParam(content.transcript))

ConvertMessageItem(item) ==
    IF item.content = NoContent \/ Len(item.content) # 1 THEN Raise
    ELSE LET content == item.content[1] IN
         IF item.status # "completed" THEN ReturnNone
         ELSE CASE content.type = "text" ->
                     IF Truthy(content.text)
                     THEN ReturnMessage(ChatCompletionAssistantMessageParam(content.text))
                     ELSE Raise
                [] content.type = "audio" ->
                     IF Truthy(content.transcript)
                     THEN ReturnMessage(ChatCompletionAssistantMessageParam(content.transcript))
                     ELSE Raise
                [] content.type = "input_text" ->
                     IF Truthy(content.text)
                     THEN ReturnMessage(ChatCompletionUserMessageParam(content.text))
                     ELSE Raise
                [] content.type = "input_audio" -> ConvertInputAudio(content)
                [] OTHER -> ReturnNone

ConvertFunctionCallOutputItem(item) ==
    IF Truthy(item.call_id) /\ Truthy(item.output)
    THEN ReturnMessage(ChatCompletionToolMessageParam(item.call_id, item.output))
    ELSE Raise

conversation_item_to_chat_message(item) ==
    CASE item.type = "message" -> ConvertMessageItem(item)
      [] item.type = "function_call" -> ReturnNone
      [] item.type = "function_call_output" -> ConvertFunctionCallOutputItem(item)
      [] OTHER -> ReturnNone

(***************************************************************************)
(* items_to_chat_messages: one iteration of the loop, and the whole        *)
(* function as the fold of the iterations.                                 *)
(* A loop state is [messages, pending_tool_calls, raised].                 *)
(***************************************************************************)
LoopState(m, p, r) == [messages |-> m, pending_tool_calls |-> p, raised |-> r]

\* the flush without `pending_tool_calls.clear()`
FlushPendingKeepsList(st) ==
    IF st.pending_tool_calls # <<>>
    THEN LoopState(Append(st.messages, AssistantToolCallsMessage(st.pending_tool_calls)),
                   st.pending_tool_calls, st.raised)
    ELSE st

\* `if pending_tool_calls: messages.append(...copy()); pending_tool_calls.clear()`
FlushPending(st) ==
    IF st.pending_tool_calls # <<>>
    THEN LoopState(Append(st.messages, AssistantToolCallsMessage(st.pending_tool_calls)),
                   <<>>, st.raised)
    ELSE st

\* the `if item.type == "function_call":` branch
AccumulateFunctionCall(st, item) ==
    IF Truthy(item.call_id) /\ Truthy(item.name) /\ Truthy(item.arguments)
          /\ item.status = "completed"
    THEN LoopState(st.messages,
                   Append(st.pending_tool_calls, ChatCompletionMessageToolCallParam(item)),
                   FALSE)
    ELSE LoopState(st.messages, st.pending_tool_calls, TRUE)

\* the rest of the loop body: flush, convert, append
ConvertAndAppend(st, item) ==
    LET flushed == FlushPending(st)
        chat_message == conversation_item_to_chat_message(item)
    IN  IF chat_message.raised
        THEN LoopState(flushed.messages, flushed.pending_tool_calls, TRUE)
        ELSE LoopState(flushed.messages \o chat_message.value,
                       flushed.pending_tool_calls, FALSE)

LoopBody(st, item) ==
    IF item.type = "function_call"
    THEN AccumulateFunctionCall(st, item)
    ELSE ConvertAndAppend(st, item)

RECURSIVE RunLoop(_, _, _)
RunLoop(st, log, k) ==
    IF st.raised \/ k > Len(log) THEN st
    ELSE RunLoop(LoopBody(st, log[k]), log, k + 1)

\* the value of items_to_chat_messages(log): [raised, value]
items_to_chat_messages(log) ==
    LET st == RunLoop(LoopState(<<>>, <<>>, FALSE), log, 1)
    IN  IF st.raised THEN Raise ELSE Return(FlushPending(st).messages)

(***************************************************************************)
(* The loop as a state machine                                             *)
(***************************************************************************)
Init ==
    /\ items \in Logs
    /\ i = 1
    /\ messages = <<>>
    /\ pending_tool_calls = <<>>
    /\ pc = "loop"
    /\ response = Absent
    /\ params = Absent
    /\ error = None
    /\ LifespanIdle /\ HandlerIdle /\ SessionIdle

\* one iteration of `for item in items`
LoopStep ==
    /\ pc = "loop"
    /\ i <= Len(items)
    /\ LET st == LoopBody(LoopState(messages, pending_tool_calls, FALSE), items[i])
       IN  /\ messages' = st.messages
           /\ pending_tool_calls' = st.pending_tool_calls
           /\ pc' = IF st.raised THEN "raised" ELSE "loop"
           /\ error' = IF st.raised THEN AssertionError ELSE error
           /\ i' = IF st.raised THEN i ELSE i + 1
    /\ UNCHANGED <<items, response, params>>
    /\ UNCHANGED <<lifespanVars, handlerVars, sessionVars>>

\* the flush after the loop and `return messages`
ReturnMessages ==
    /\ pc = "loop"
    /\ i > Len(items)
    /\ LET st == FlushPending(LoopState(messages, pending_tool_calls, FALSE))
       IN  /\ messages' = st.messages
           /\ pending_tool_calls' = st.pending_tool_calls
    /\ pc' = "returned"
    /\ UNCHANGED <<items, i, response, params, error>>
    /\ UNCHANGED <<lifespanVars, handlerVars, sessionVars>>

Next == LoopStep \/ ReturnMessages

Spec == Init /\ [][Next]_vars

(***************************************************************************)
(* Responses (speaches.types.realtime.Response)                            *)
(***************************************************************************)
\* max_response_output_tokens is an int or the string "inf"; max_tokens is an
\* int or None. A value is tagged with its kind so that the three can be told
\* apart.
IntValue(n) == [kind |-> "int", n |-> n]
InfValue == [kind |-> "inf", n |-> 0]
NoneValue == [kind |-> "None", n |-> 0]

Tool(name, description) ==
    [type |-> "function", name |-> name, description |-> description,
     parameters |-> "{}"]

ToolUniverse == { Tool("get_time", None), Tool("get_weather", "Weather of a city") }

Responses ==
    [ output_audio_format : {"pcm16", "g711_ulaw", "g711_alaw"},
      max_response_output_tokens : {InfValue, IntValue(1), IntValue(4096)},
      tools : SeqsUpTo(ToolUniverse, MaxTools),
      tool_choice : {"auto", "none", "required"},
      modalities : {<<"text">>, <<"text", "audio">>, <<"audio">>},
      instructions : {"", "Be brief."},
      voice : {"alloy"},
      temperature : {"0.8"} ]

\* histories handed to create_completion_params
HistoryMessages ==
    { ChatCompletionUserMessageParam("hi"),
      AssistantToolCallsMessage(<<ChatCompletionMessageToolCallParam(
                                     FunctionCallItem("completed", "c1", "get_time", "{}"))>>),
      ChatCompletionToolMessageParam("c1", "12:00") }

Histories == SeqsUpTo(HistoryMessages, MaxHist)

ModelId == "gpt-4o-mini"

(***************************************************************************)
(* create_completion_params                                                *)
(***************************************************************************)
\* max_tokens never set
MaxTokensUncapped(r) == NoneValue

\* `max_tokens = None if ... == "inf" else ...`
MaxTokens(r) ==
    IF r.max_response_output_tokens = InfValue THEN NoneValue
    ELSE r.max_response_output_tokens

ChatCompletionToolParam(tool) ==
    [type |-> tool.type,
     function |-> [name |-> tool.name,
                   description |-> OrElse(tool.description, ""),
                   parameters |-> tool.parameters]]

\* kwargs with tool_choice set whether or not there are tools
ToolKwargsAlwaysChoice(r) ==
    IF Len(r.tools) > 0
    THEN [keys |-> {"tools", "tool_choice"},
          tools |-> [k \in 1..Len(r.tools) |-> ChatCompletionToolParam(r.tools[k])],
          tool_choice |-> r.tool_choice]
    ELSE [keys |-> {"tool_choice"}, tools |-> <<>>, tool_choice |-> r.tool_choice]

\* `kwargs`: the keys it holds, and their values (of the keys it lacks: <<>>, Absent)
ToolKwargs(r) ==
    IF Len(r.tools) > 0
    THEN [keys |-> {"tools", "tool_choice"},
          tools |-> [k \in 1..Len(r.tools) |-> ChatCompletionToolParam(r.tools[k])],
          tool_choice |-> r.tool_choice]
    ELSE [keys |-> {}, tools |-> <<>>, tool_choice |-> Absent]

\* the system message after the history instead of before it
RequestMessagesSystemLast(msgs, r) ==
    msgs \o <<ChatCompletionSystemMessageParam(r.instructions)>>

\* `messages=[ChatCompletionSystemMessageParam(...), *messages]`
RequestMessages(msgs, r) ==
    <<ChatCompletionSystemMessageParam(r.instructions)>> \o msgs

\* both modalities whatever the response asks for
RequestModalitiesBoth(r) == <<"text", "audio">>

\* `modalities=response.modalities`
RequestModalities(r) == r.modalities

\* `audio=ChatCompletionAudioParam(voice=..., format=...)`
ChatCompletionAudioParam(r) == [voice |-> r.voice, format |-> r.output_audio_format]

\* [raised, value]: raised when `assert response.output_audio_format == "pcm16"` fails
create_completion_params(model_id, msgs, r) ==
    IF r.output_audio_format # "pcm16" THEN [raised |-> TRUE, value |-> <<>>]
    ELSE LET kwargs == ToolKwargs(r)
         IN  [raised |-> FALSE,
              value |-> <<[keys |-> {"model", "messages", "stream", "modalities", "audio",
                                     "temperature", "max_tokens", "stream_options"}
                                       \cup kwargs.keys,
                           model |-> model_id,
                           messages |-> RequestMessages(msgs, r),
                           stream |-> TRUE,
                           modalities |-> RequestModalities(r),
                           audio |-> ChatCompletionAudioParam(r),
                           temperature |-> r.temperature,
                           max_tokens |-> MaxTokens(r),
                           stream_options |-> [include_usage |-> TRUE],
                           tools |-> kwargs.tools,
                           tool_choice |-> kwargs.tool_choice]>>]

\* a history and a response, about to be handed to create_completion_params
InitParams ==
    /\ items = <<>>
    /\ i = 1
    /\ messages \in Histories
    /\ pending_tool_calls = <<>>
    /\ pc = "returned"
    /\ response \in Responses
    /\ params = Absent
    /\ error = None
    /\ LifespanIdle /\ HandlerIdle /\ SessionIdle

CreateCompletionParams ==
    /\ pc = "returned"
    /\ LET res == create_completion_params(ModelId, messages, response)
       IN  IF res.raised
           THEN pc' = "raised" /\ params' = params /\ error' = AssertionError
           ELSE pc' = "built" /\ params' = res.value[1] /\ error' = error
    /\ UNCHANGED <<items, i, messages, pending_tool_calls, response>>
    /\ UNCHANGED <<lifespanVars, handlerVars, sessionVars>>

NextParams == CreateCompletionParams

SpecParams == InitParams /\ [][NextParams]_vars

(***************************************************************************)
(* speaches.main.lifespan: the download of the default models on startup   *)
(***************************************************************************)
NumExecutors == 3   \* executors in the registry

DEFAULT_MODELS == <<"speaches-ai/Kokoro-82M-v1.0-ONNX", "Systran/faster-whisper-large-v3">>

\* what `except Exception` does with an exception of the download call
OnDownloadExceptionPropagate == "propagated"

OnDownloadException == "caught"

\* whether the loop over the executors ends after a download call that
\* returned was_downloaded
BreakAfterDownloadOnlyIfDownloaded(was_downloaded) == was_downloaded

BreakAfterDownload(was_downloaded) == TRUE

\* one record of startup_log: the executor visited for a model, whether its
\* remote model list held the model, what the download call did if it was
\* made, and what was logged
LogEntry(listed, outcome, logged) ==
    [model |-> DEFAULT_MODELS[model_idx], executor |-> executor_idx,
     listed |-> listed, outcome |-> outcome, logged |-> logged]

InitLifespan ==
    /\ model_idx = 1
    /\ executor_idx = 1
    /\ lifespan_pc = "loop"
    /\ startup_log = <<>>
    /\ ChatIdle /\ HandlerIdle /\ SessionIdle

AtExecutor ==
    /\ lifespan_pc = "loop"
    /\ model_idx <= Len(DEFAULT_MODELS)
    /\ executor_idx <= NumExecutors

\* list_remote_models() raises: nothing catches it, the lifespan fails
ListRemoteModelsRaises ==
    /\ AtExecutor
    /\ startup_log' = Append(startup_log, LogEntry(FALSE, "list_raised", None))
    /\ lifespan_pc' = "crashed"
    /\ UNCHANGED <<model_idx, executor_idx>>
    /\ UNCHANGED <<chatVars, handlerVars, sessionVars>>

\* `model_id in [...]` is false: on to the next executor
ModelNotListed ==
    /\ AtExecutor
    /\ startup_log' = Append(startup_log, LogEntry(FALSE, "not_asked", None))
    /\ executor_idx' = executor_idx + 1
    /\ UNCHANGED <<model_idx, lifespan_pc>>
    /\ UNCHANGED <<chatVars, handlerVars, sessionVars>>

\* the model is listed and download_model_files_if_not_exist returns
DownloadReturns ==
    /\ AtExecutor
    /\ \E was_downloaded \in BOOLEAN :
         /\ startup_log' = Append(startup_log,
                IF was_downloaded
                THEN LogEntry(TRUE, "downloaded", "Downloaded default model")
                ELSE LogEntry(TRUE, "exists", "Default model already exists"))
         /\ IF BreakAfterDownload(was_downloaded)
            THEN model_idx' = model_idx + 1 /\ executor_idx' = 1
            ELSE model_idx' = model_idx /\ executor_idx' = executor_idx + 1
    /\ UNCHANGED lifespan_pc
    /\ UNCHANGED <<chatVars, handlerVars, sessionVars>>

\* the model is listed and download_model_files_if_not_exist raises
DownloadRaises ==
    /\ AtExecutor
    /\ IF OnDownloadException = "caught"
       THEN /\ startup_log' = Append(startup_log,
                   LogEntry(TRUE, "download_raised", "Failed to download default model"))
            /\ executor_idx' = executor_idx + 1
            /\ UNCHANGED lifespan_pc
       ELSE /\ startup_log' = Append(startup_log, LogEntry(TRUE, "download_raised", None))
            /\ lifespan_pc' = "crashed"
            /\ UNCHANGED executor_idx
    /\ UNCHANGED model_idx
    /\ UNCHANGED <<chatVars, handlerVars, sessionVars>>

\* the loop over the executors ran out: on to the next model
ExecutorsExhausted ==
    /\ lifespan_pc = "loop"
    /\ model_idx <= Len(DEFAULT_MODELS)
    /\ executor_idx > NumExecutors
    /\ model_idx' = model_idx + 1
    /\ executor_idx' = 1
    /\ UNCHANGED <<lifespan_pc, startup_log>>
    /\ UNCHANGED <<chatVars, handlerVars, sessionVars>>

\* the loop over the models ran out: "Startup complete", `yield`
StartupComplete ==
    /\ lifespan_pc = "loop"
    /\ model_idx > Len(DEFAULT_MODELS)
    /\ lifespan_pc' = "yield"
    /\ UNCHANGED <<model_idx, executor_idx, startup_log>>
    /\ UNCHANGED <<chatVars, handlerVars, sessionVars>>

\* the application stops: the code after `yield`
ShutDown ==
    /\ lifespan_pc = "yield"
    /\ lifespan_pc' = "shutdown"
    /\ UNCHANGED <<model_idx, executor_idx, startup_log>>
    /\ UNCHANGED <<chatVars, handlerVars, sessionVars>>

StartupStep ==
    \/ ListRemoteModelsRaises
    \/ ModelNotListed
    \/ DownloadReturns
    \/ DownloadRaises
    \/ ExecutorsExhausted
    \/ StartupComplete

NextLifespan == StartupStep \/ ShutDown

\* the event loop runs the startup loop on: every call it makes returns or raises
SpecLifespan == InitLifespan /\ [][NextLifespan]_vars /\ WF_vars(StartupStep)

(***************************************************************************)
(* speaches.main._api_proxy_error_handler                                  *)
(***************************************************************************)
MaxErrors == 2   \* APIProxyErrors handled in one run

\* values of the SPEACHES_LOG_LEVEL environment variable; None: not set
LogLevelEnvValues == {None, "INFO", "DEBUG", "debug", "Debug", "WARNING"}

\* os.getenv(name, default)
GetEnv(value, default) == IF value = None THEN default ELSE value

\* str.upper() on the values above
Upper(str) ==
    CASE str \in {"debug", "Debug"} -> "DEBUG"
      [] OTHER -> str

\* the APIProxyErrors raised: status_code, message, hint, suggestions, debug
APIProxyErrors ==
    [ status_code : {400, 502},
      message : {"Upstream request failed"},
      hint : {None, "Check the API key"},
      suggestions : {<<>>},
      debug : {None, "", "Traceback ..."} ]

\* the debug field given whenever the exception has one
DebugIncludedWhateverLevel(env, exc) == Truthy(exc.debug)

\* `log_level == "DEBUG" and exc.debug`
DebugIncluded(env, exc) ==
    Upper(GetEnv(env, "INFO")) = "DEBUG" /\ Truthy(exc.debug)

\* JSONResponse(status_code=exc.status_code, content=content)
JSONResponse(exc, error_id, env) ==
    [status_code |-> exc.status_code,
     content |-> [keys |-> {"detail", "hint", "suggested_fixes", "error_id"}
                              \cup (IF DebugIncluded(env, exc) THEN {"debug"} ELSE {}),
                  detail |-> exc.message,
                  hint |-> exc.hint,
                  suggested_fixes |-> exc.suggestions,
                  error_id |-> error_id,
                  debug |-> IF DebugIncluded(env, exc) THEN exc.debug ELSE Absent]]

InitHandler ==
    /\ log_level_env \in LogLevelEnvValues
    /\ uuids = {}
    /\ json_responses = <<>>
    /\ ChatIdle /\ LifespanIdle /\ SessionIdle

\* one APIProxyError handled; uuid.uuid4() gives a value not drawn before
HandleAPIProxyError ==
    /\ Len(json_responses) < MaxErrors
    /\ \E exc \in APIProxyErrors :
         LET error_id == Cardinality(uuids) + 1
         IN  /\ uuids' = uuids \cup {error_id}
             /\ json_responses' = Append(json_responses,
                    [exc |-> exc, response |-> JSONResponse(exc, error_id, log_level_env)])
    /\ UNCHANGED log_level_env
    /\ UNCHANGED <<chatVars, lifespanVars, sessionVars>>

NextHandler == HandleAPIProxyError

SpecHandler == InitHandler /\ [][NextHandler]_vars

(***************************************************************************)
(* One realtime session: the events of its responses. The response         *)
(* orchestrator is modelled from the specification (response lifecycle,    *)
(* ordering guarantees, cancellation); the client side is the text-only    *)
(* turn of test_realtime_text_to_speech.py.                                *)
(***************************************************************************)
MaxResponses == 2   \* responses created in one session
MaxDeltas == 1      \* deltas of one response
MaxItems == 1       \* items the client creates

DeltaTypes ==
    {"response.text.delta", "response.audio_transcript.delta", "response.audio.delta"}

TerminalTypes == {"response.done", "response.cancelled", "response.failed"}

Event(type, response_id) == [type |-> type, response_id |-> response_id]

\* the events carrying the id of response r, in order
EventsOf(r) == SelectSeq(events, LAMBDA e : e.response_id = r)

\* responses created so far; the last one is the active one, if any is
NumCreated == Len(SelectSeq(events, LAMBDA e : e.type = "response.created"))

NumDeltas(r) == Len(SelectSeq(EventsOf(r), LAMBDA e : e.type \in DeltaTypes))

\* a response is active from response.created to its terminal event
ResponseActive == session_pc \in {"in_progress", "finalizing"}

\* response.cancel is honoured whenever the client sends it
CanCancelAnytime == NumCreated > 0

\* response.cancel signals the active response's cancellation token
CanCancel == ResponseActive

InitSession ==
    /\ session_pc = "open"
    /\ conversation = 0
    /\ events = <<>>
    /\ ChatIdle /\ LifespanIdle /\ HandlerIdle

\* client: conversation.item.create with an input_text part
ConversationItemCreate ==
    /\ session_pc # "idle"
    /\ conversation < MaxItems
    /\ conversation' = conversation + 1
    /\ UNCHANGED <<session_pc, events>>
    /\ UNCHANGED <<chatVars, lifespanVars, handlerVars>>

\* client: response.create; refused while a response is active
ResponseCreate ==
    /\ session_pc = "open"
    /\ NumCreated < MaxResponses
    /\ events' = Append(events, Event("response.created", NumCreated + 1))
    /\ session_pc' = "in_progress"
    /\ UNCHANGED conversation
    /\ UNCHANGED <<chatVars, lifespanVars, handlerVars>>

\* a delta of the LLM stream or of the TTS pipeline
EmitDelta ==
    /\ session_pc = "in_progress"
    /\ NumDeltas(NumCreated) < MaxDeltas
    /\ \E type \in DeltaTypes : events' = Append(events, Event(type, NumCreated))
    /\ UNCHANGED <<session_pc, conversation>>
    /\ UNCHANGED <<chatVars, lifespanVars, handlerVars>>

\* stream end: the items are finalized
OutputItemDone ==
    /\ session_pc = "in_progress"
    /\ events' = Append(events, Event("response.output_item.done", NumCreated))
    /\ session_pc' = "finalizing"
    /\ UNCHANGED conversation
    /\ UNCHANGED <<chatVars, lifespanVars, handlerVars>>

\* response.done with usage
ResponseDone ==
    /\ session_pc = "finalizing"
    /\ events' = Append(events, Event("response.done", NumCreated))
    /\ session_pc' = "open"
    /\ UNCHANGED conversation
    /\ UNCHANGED <<chatVars, lifespanVars, handlerVars>>

\* upstream error or timeout
ResponseFailed ==
    /\ session_pc = "in_progress"
    /\ events' = Append(events, Event("response.failed", NumCreated))
    /\ session_pc' = "open"
    /\ UNCHANGED conversation
    /\ UNCHANGED <<chatVars, lifespanVars, handlerVars>>

\* client: response.cancel, or a new turn
ResponseCancelled ==
    /\ CanCancel
    /\ events' = Append(events, Event("response.cancelled", NumCreated))
    /\ session_pc' = "open"
    /\ UNCHANGED conversation
    /\ UNCHANGED <<chatVars, lifespanVars, handlerVars>>

NextSession ==
    \/ ConversationItemCreate
    \/ ResponseCreate
    \/ EmitDelta
    \/ OutputItemDone
    \/ ResponseDone
    \/ ResponseFailed
    \/ ResponseCancelled

SpecSession == InitSession /\ [][NextSession]_vars

(***************************************************************************)
(* Vocabulary of the claims about the projection                           *)
(***************************************************************************)
Ended == pc \in {"returned", "raised"}

\* what the call hands back: the messages, or nothing when it raised
Yielded == IF pc = "returned" THEN messages ELSE <<>>

\* the messages that carry content (user, assistant, system, tool turns)
ContentMessages(ms) == SelectSeq(ms, LAMBDA m : m.tool_calls = NoToolCalls)

\* the assistant messages that carry tool_calls
ToolCallMessages(ms) == SelectSeq(ms, LAMBDA m : m.tool_calls # NoToolCalls)

RECURSIVE Flatten(_)
Flatten(ss) == IF ss = <<>> THEN <<>> ELSE Head(ss) \o Flatten(Tail(ss))

\* every tool_calls entry emitted or pending, in order
ToolCallEntries(ms, pending) ==
    Flatten([k \in 1..Len(ToolCallMessages(ms)) |-> ToolCallMessages(ms)[k].tool_calls])
        \o pending

RECURSIVE RunLength(_)
RunLength(log) ==
    IF log = <<>> \/ Head(log).type # "function_call" THEN 0
    ELSE 1 + RunLength(Tail(log))

\* the maximal runs of consecutive function_call items of a log, in order
RECURSIVE Runs(_)
Runs(log) ==
    IF log = <<>> THEN <<>>
    ELSE IF Head(log).type # "function_call" THEN Runs(Tail(log))
    ELSE LET k == RunLength(log)
         IN  <<SubSeq(log, 1, k)>> \o Runs(SubSeq(log, k + 1, Len(log)))

\* the one assistant message a run is to yield
RunMessage(run) ==
    [role |-> "assistant", content |-> Absent, tool_call_id |-> Absent,
     tool_calls |-> [j \in 1..Len(run) |->
                        [id |-> run[j].call_id, type |-> "function",
                         function |-> [name |-> run[j].name,
                                       arguments |-> run[j].arguments]]]]

InsertAt(log, p, x) == SubSeq(log, 1, p) \o <<x>> \o SubSeq(log, p + 1, Len(log))

NotCompleted == { it \in Items : it.status # "completed" }

AtItem == pc = "loop" /\ i <= Len(items)

\* the text of a text/input_text part, the transcript of an audio/input_audio part
PartValue(part) ==
    IF part.type \in {"text", "input_text"} THEN part.text ELSE part.transcript

IsUntranscribedAudio(item) ==
    /\ item.type = "message"
    /\ item.status = "completed"
    /\ Len(item.content) = 1
    /\ item.content[1].type = "input_audio"
    /\ item.content[1].transcript \in {None, ""}

(***************************************************************************)
(* C1: for any conversation log, each maximal run of k >= 1 consecutive    *)
(* function_call items yields exactly one assistant message whose          *)
(* tool_calls has exactly the run's k entries (call_id, name, arguments),  *)
(* in log order: when the call has ended, the tool_calls messages it       *)
(* yielded are the run messages of the log, one per run.                   *)
(* Violated: a run holding a function_call that is not completed fails the *)
(* assert of the accumulate branch and the call yields nothing.            *)
(***************************************************************************)
C1_RunsYieldOneMessageEach ==
    Ended => ToolCallMessages(Yielded) = [r \in 1..Len(Runs(items)) |-> RunMessage(Runs(items)[r])]

(***************************************************************************)
(* C2: inserting an item that is not completed, of any variant and at any  *)
(* position, leaves the projection unchanged.                              *)
(* Violated: an unfinished function_call raises, an unfinished             *)
(* function_call_output adds a tool message, an unfinished message splits  *)
(* a run of function_call items.                                           *)
(***************************************************************************)
C2_InsertNotCompletedUnchanged ==
    pc = "returned" =>
        \A p \in 0..Len(items) : \A x \in NotCompleted :
            items_to_chat_messages(InsertAt(items, p, x)) = Return(messages)

(***************************************************************************)
(* C3: an item of any variant whose status is in_progress or incomplete is *)
(* skipped: the iteration over it does not raise, moves on to the next     *)
(* item, and adds no content message and no tool_calls entry.              *)
(* Violated: function_call raises, function_call_output is converted.      *)
(***************************************************************************)
C3_NotCompletedSkipped ==
    [][ (AtItem /\ items[i].status # "completed")
          => /\ pc' = "loop"
             /\ i' = i + 1
             /\ ContentMessages(messages') = ContentMessages(messages)
             /\ ToolCallEntries(messages', pending_tool_calls')
                  = ToolCallEntries(messages, pending_tool_calls) ]_vars

(***************************************************************************)
(* C4: each function_call_output item yields exactly one tool message with *)
(* tool_call_id = call_id and content = output, for every output string.   *)
(* Violated: the empty output string fails `assert item.output`.           *)
(***************************************************************************)
C4_OutputYieldsToolMessage ==
    [][ (AtItem /\ items[i].type = "function_call_output")
          => /\ pc' = "loop"
             /\ ContentMessages(messages')
                  = Append(ContentMessages(messages),
                           [role |-> "tool", content |-> items[i].output,
                            tool_call_id |-> items[i].call_id,
                            tool_calls |-> NoToolCalls]) ]_vars

(***************************************************************************)
(* C5: a completed message whose sole content part is input_audio with an  *)
(* absent or empty transcript produces no chat message, and the loop goes  *)
(* on to the next item without raising.                                    *)
(***************************************************************************)
C5_UntranscribedAudioDropped ==
    [][ (AtItem /\ IsUntranscribedAudio(items[i]))
          => /\ pc' = "loop"
             /\ i' = i + 1
             /\ ContentMessages(messages') = ContentMessages(messages)
             /\ ToolCallEntries(messages', pending_tool_calls')
                  = ToolCallEntries(messages, pending_tool_calls) ]_vars

\* a log that starts with an untranscribed audio message was projected to the
\* end, and every other item of it gave its message
C5_Witness ==
    /\ pc = "returned"
    /\ Len(items) >= 2
    /\ IsUntranscribedAudio(items[1])
    /\ Len(messages) = Len(items) - 1

(***************************************************************************)
(* C6: each completed message item yields exactly one chat message whose   *)
(* role is the item's role and whose content is the part's text            *)
(* (text, input_text) or transcript (audio, input_audio). Stated for the   *)
(* parts whose text or transcript is not empty.                            *)
(* Violated: the role is taken from the part's type, never from the item:  *)
(* a system message with an input_text part becomes a user turn.           *)
(***************************************************************************)
C6_MessageKeepsRoleAndContent ==
    [][ (AtItem /\ items[i] \in FilledMessages)
          => /\ pc' = "loop"
             /\ ContentMessages(messages')
                  = Append(ContentMessages(messages),
                           [role |-> items[i].role,
                            content |-> PartValue(items[i].content[1]),
                            tool_call_id |-> Absent,
                            tool_calls |-> NoToolCalls]) ]_vars

(***************************************************************************)
(* Vocabulary of the claims about the chat request                         *)
(***************************************************************************)
Range(f) == { f[k] : k \in DOMAIN f }

Built == pc = "built"

(***************************************************************************)
(* C7: the chat request holds tool_choice if and only if the response's    *)
(* tools list is not empty: with no tools neither tools nor tool_choice is *)
(* in the request, whatever tool_choice is; with tools both are, and tools *)
(* has one entry per configured tool, in order.                            *)
(***************************************************************************)
C7_ToolChoiceIffTools ==
    Built =>
        /\ ("tool_choice" \in params.keys) <=> (response.tools # <<>>)
        /\ ("tools" \in params.keys) <=> (response.tools # <<>>)
        /\ response.tools # <<>> =>
             /\ params.tool_choice = response.tool_choice
             /\ Len(params.tools) = Len(response.tools)
             /\ \A k \in 1..Len(response.tools) :
                    /\ params.tools[k].type = response.tools[k].type
                    /\ params.tools[k].function.name = response.tools[k].name
                    /\ params.tools[k].function.parameters = response.tools[k].parameters

\* a request was built for a response that sets tool_choice and has no tools
C7_Witness ==
    /\ Built
    /\ response.tools = <<>>
    /\ response.tool_choice = "required"
    /\ "messages" \in params.keys

(***************************************************************************)
(* C8: the request's messages are the system message carrying the          *)
(* response's instructions, then the history unchanged and in order: one   *)
(* message is added, at index 0, with role system, and the request has     *)
(* len(history) + 1 messages.                                              *)
(***************************************************************************)
C8_SystemThenHistory ==
    Built =>
        /\ Len(params.messages) = Len(messages) + 1
        /\ params.messages[1].role = "system"
        /\ params.messages[1].content = response.instructions
        /\ \A k \in 1..Len(messages) : params.messages[k + 1] = messages[k]

\* a request was built from a history of two different messages
C8_Witness ==
    /\ Built
    /\ Len(messages) = 2
    /\ messages[1] # messages[2]
    /\ response.instructions = "Be brief."

(***************************************************************************)
(* C9: max_tokens equals max_response_output_tokens whenever that is       *)
(* finite, and is None exactly when max_response_output_tokens is "inf".   *)
(***************************************************************************)
C9_MaxTokens ==
    Built =>
        /\ response.max_response_output_tokens.kind = "int"
             => params.max_tokens = response.max_response_output_tokens
        /\ (params.max_tokens = NoneValue)
             <=> (response.max_response_output_tokens = InfValue)

\* a request was built for a response capped at 4096 tokens
C9_Witness ==
    /\ Built
    /\ response.max_response_output_tokens = IntValue(4096)
    /\ "max_tokens" \in params.keys

(***************************************************************************)
(* C10: the request asks for both text and audio only when audio is in the *)
(* response's modalities (a text-only response never asks for audio), and  *)
(* the request's audio format is the response's output_audio_format.       *)
(***************************************************************************)
C10_ModalitiesAndFormat ==
    Built =>
        /\ {"text", "audio"} \subseteq Range(params.modalities)
             => "audio" \in Range(response.modalities)
        /\ "audio" \notin Range(response.modalities)
             => "audio" \notin Range(params.modalities)
        /\ params.audio.format = response.output_audio_format

\* a request was built for a text-only response
C10_Witness ==
    /\ Built
    /\ response.modalities = <<"text">>
    /\ params.modalities = <<"text">>

(***************************************************************************)
(* C11: an output_audio_format other than pcm16 fails with the error kind  *)
(* invalid_request: for such a response no chat request is built, and the  *)
(* failure is invalid_request rather than any other error.                 *)
(* Violated: the format is checked by an `assert`, so the failure is an    *)
(* AssertionError.                                                         *)
(***************************************************************************)
C11_OtherFormatIsInvalidRequest ==
    (pc \in {"built", "raised"} /\ response.output_audio_format # "pcm16")
        => (pc = "raised" /\ error = "invalid_request")

(***************************************************************************)
(* Vocabulary of the claim about the running accumulator                   *)
(***************************************************************************)
\* the items the loop has been through
Processed == SubSeq(items, 1, i - 1)

RECURSIVE TrailingRunLength(_)
TrailingRunLength(log) ==
    IF log = <<>> \/ log[Len(log)].type # "function_call" THEN 0
    ELSE 1 + TrailingRunLength(SubSeq(log, 1, Len(log) - 1))

\* the projection in two passes: cut the log into its maximal runs of
\* function_call items and its other items, then give one message per run and
\* the converted message, if any, per other item
RECURSIVE TwoPass(_)
TwoPass(log) ==
    IF log = <<>> THEN <<>>
    ELSE IF Head(log).type = "function_call"
    THEN LET k == RunLength(log)
         IN  <<RunMessage(SubSeq(log, 1, k))>> \o TwoPass(SubSeq(log, k + 1, Len(log)))
    ELSE conversation_item_to_chat_message(Head(log)).value \o TwoPass(Tail(log))

\* the message a flush of `pending` would append
PendingMessage(pending) ==
    IF pending = <<>> THEN <<>>
    ELSE <<[role |-> "assistant", content |-> Absent, tool_call_id |-> Absent,
            tool_calls |-> pending]>>

NumFunctionCalls(log) == Cardinality({ k \in 1..Len(log) : log[k].type = "function_call" })

ModelEntries(m) == SelectSeq(startup_log, LAMBDA e : e.model = m)

DefaultModelIds == { DEFAULT_MODELS[k] : k \in 1..Len(DEFAULT_MODELS) }

DownloadAsked(e) == e.outcome \in {"downloaded", "exists", "download_raised"}

DownloadReturned(e) == e.outcome \in {"downloaded", "exists"}

\* the search for model m was carried to its end
Considered(m) ==
    LET es == ModelEntries(m)
    IN  /\ es # <<>>
        /\ DownloadReturned(es[Len(es)]) \/ Len(es) = NumExecutors

Started == lifespan_pc \in {"yield", "shutdown"}

(***************************************************************************)
(* C14: startup completes despite download failures. For every default     *)
(* model and every executor an exception of                                *)
(* download_model_files_if_not_exist is caught and logged, every default   *)
(* model is still considered, and the lifespan reaches its yield (the only *)
(* way not to is an exception of list_remote_models, which is outside the  *)
(* try).                                                                   *)
(***************************************************************************)
C14_StartupSurvivesDownloadFailures ==
    /\ [](\A k \in 1..Len(startup_log) :
            startup_log[k].outcome = "download_raised"
               => /\ startup_log[k].logged = "Failed to download default model"
                  /\ (k = Len(startup_log) => lifespan_pc # "crashed"))
    /\ [](lifespan_pc = "crashed"
            => startup_log[Len(startup_log)].outcome = "list_raised")
    /\ [](Started => \A m \in DefaultModelIds : Considered(m))
    /\ <>(Started \/ lifespan_pc = "crashed")

\* the application serves although every executor failed to download the
\* first model and one failed on the second
C14_Witness ==
    /\ lifespan_pc = "yield"
    /\ \A e \in 1..NumExecutors :
          ModelEntries(DEFAULT_MODELS[1])[e].outcome = "download_raised"
    /\ ModelEntries(DEFAULT_MODELS[2])[1].outcome = "download_raised"

(***************************************************************************)
(* C15: for each default model the executors are tried in registry order,  *)
(* only those whose remote model list holds the model are asked to         *)
(* download it, and the search stops at the first such executor whose      *)
(* download call returns without exception, whether it downloaded the      *)
(* files or found them present: a later executor is asked for the model    *)
(* only if every earlier executor listing it raised.                       *)
(***************************************************************************)
C15_FirstListingExecutorThatReturns ==
    \A m \in DefaultModelIds :
        LET es == ModelEntries(m)
        IN  \A k \in 1..Len(es) :
              /\ es[k].executor = k
              /\ DownloadAsked(es[k]) => es[k].listed
              /\ DownloadReturned(es[k]) => k = Len(es)
              /\ DownloadAsked(es[k]) =>
                    \A j \in 1..(k - 1) :
                        es[j].listed => es[j].outcome = "download_raised"

\* the first executor listed the model and raised, the second did not list
\* it, the third found the files present, and the search went on to the next
\* model
C15_Witness ==
    LET es == ModelEntries(DEFAULT_MODELS[1])
    IN  /\ Len(es) = 3
        /\ es[1].outcome = "download_raised"
        /\ es[2].outcome = "not_asked"
        /\ es[3].outcome = "exists"
        /\ model_idx = 2
        /\ ModelEntries(DEFAULT_MODELS[2]) # <<>>

(***************************************************************************)
(* C16: the JSON response to an APIProxyError has the exception's status   *)
(* code and holds detail, hint, suggested_fixes and a freshly generated    *)
(* error_id; it holds the debug field only if SPEACHES_LOG_LEVEL, compared *)
(* without regard to case and INFO when not set, is DEBUG and the          *)
(* exception's debug value is not empty.                                   *)
(***************************************************************************)
C16_ErrorResponseFields ==
    \A k \in 1..Len(json_responses) :
        LET exc == json_responses[k].exc
            res == json_responses[k].response
        IN  /\ res.status_code = exc.status_code
            /\ {"detail", "hint", "suggested_fixes", "error_id"} \subseteq res.content.keys
            /\ res.content.detail = exc.message
            /\ res.content.hint = exc.hint
            /\ res.content.suggested_fixes = exc.suggestions
            /\ \A j \in 1..(k - 1) :
                   json_responses[j].response.content.error_id # res.content.error_id
            /\ "debug" \in res.content.keys
                 => /\ log_level_env \in {"DEBUG", "debug", "Debug"}
                    /\ exc.debug \notin {None, ""}

\* with the level spelled in lower case, one response carries the debug field
\* and the next, for an exception without debug value, does not
C16_Witness ==
    /\ log_level_env = "debug"
    /\ Len(json_responses) = 2
    /\ "debug" \in json_responses[1].response.content.keys
    /\ json_responses[1].response.content.debug = "Traceback ..."
    /\ json_responses[2].exc.debug = ""
    /\ "debug" \notin json_responses[2].response.content.keys

(***************************************************************************)
(* C12: for any response R started by response.create, the events carrying *)
(* R's id begin with response.created, every delta comes after it, and     *)
(* exactly one terminal event (response.done, response.cancelled or        *)
(* response.failed) is emitted and is the last event of R: at most one     *)
(* while R is active, exactly one once it is not.                          *)
(***************************************************************************)
C12_ResponseEventOrder ==
    \A r \in 1..NumCreated :
        LET es == EventsOf(r)
            terminals == { k \in 1..Len(es) : es[k].type \in TerminalTypes }
        IN  /\ es[1].type = "response.created"
            /\ \A k \in 2..Len(es) : es[k].type # "response.created"
            /\ \A k \in 1..Len(es) : es[k].type \in DeltaTypes => k > 1
            /\ \A k \in terminals : k = Len(es)
            /\ Cardinality(terminals) <= 1
            /\ (r < NumCreated \/ ~ResponseActive) => Cardinality(terminals) = 1

\* the text-only turn: an item, then a response that gave a text delta and
\* response.done, and a second response that was cancelled
C12_Witness ==
    /\ conversation = 1
    /\ NumCreated = 2
    /\ session_pc = "open"
    /\ [k \in 1..Len(EventsOf(1)) |-> EventsOf(1)[k].type]
          = <<"response.created", "response.text.delta",
              "response.output_item.done", "response.done">>
    /\ EventsOf(2)[Len(EventsOf(2))].type = "response.cancelled"

====
